---- MODULE Spec2Model ----
(***************************************************************************)
(* A model of the hotcoal library (github.com/motrboat/hotcoal).           *)
(*                                                                         *)
(* A Go string is a sequence of bytes; a byte is written here as a        *)
(* one-character TLA+ string, except for the two bytes of a two-byte      *)
(* UTF-8 sequence, which are written "C3" (lead) and "A9"                 *)
(* (continuation).  A hotcoalString is a distinct type over the same      *)
(* bytes: it is modelled as the record [hs |-> bytes], so that a plain    *)
(* string and a hotcoalString are never equal and every conversion        *)
(* between the two is an explicit step.                                    *)
(***************************************************************************)
EXTENDS Integers, Sequences, FiniteSets, TLC

\* ------------------------------------------------------------------------
\* Bounds of the model
\* ------------------------------------------------------------------------
MaxLit == 1        \* longest developer literal of a call
MaxRun == 1        \* longest runtime string handed to Validate
MaxOthers == 1     \* most otherAllowlistItems of an Allowlist call
MaxLen == 3        \* longest hotcoalString the library machine builds
MaxS == 4          \* longest s of a Replace / ReplaceAll call
MaxOld == 2        \* longest old of a Replace / ReplaceAll call
MaxNew == 1        \* longest new of a Replace / ReplaceAll call
MaxN == 3          \* largest n of a Replace call
MaxElems == 3      \* most elements of a Join call
MaxElem == 1       \* longest element of a Join call
MaxSep == 1        \* longest separator of a Join call

\* ------------------------------------------------------------------------
\* Plain strings
\* ------------------------------------------------------------------------
StrUpTo(S, n) == UNION {[1..k -> S] : k \in 0..n}

LitBytes == {"a", "b"}
RunBytes == {"a", "A", "b"}
\* "C3" and "A9" stand for the bytes 0xC3 and 0xA9: together the two-byte
\* UTF-8 sequence of one rune, apart a lead byte and a continuation byte
StrBytes == {"a", "C3", "A9"}
NewBytes == {"a", "b"}
SepBytes == {"-"}

Literals == StrUpTo(LitBytes, MaxLit)
RuntimeValues == StrUpTo(RunBytes, MaxRun)

\* ------------------------------------------------------------------------
\* hotcoal.go
\* ------------------------------------------------------------------------
\* the conversion hotcoalString(s) of a plain string (or of an untyped
\* string constant) to the type hotcoalString
hotcoalString(s) == [hs |-> s]

\* func (s hotcoalString) String() string
String(s) == s.hs

WrapDropsInput(s) == hotcoalString(<<>>)

\* func Wrap(s hotcoalString) hotcoalString
Wrap(s) == s

\* func W(s hotcoalString) hotcoalString
W(s) == s

\* ------------------------------------------------------------------------
\* allowlist.go
\* ------------------------------------------------------------------------
\* the nil error, and the absence of a returned value
nil == [nil |-> TRUE]
NoValue == [none |-> TRUE]

\* var unit = unitT{}
unit == "unit"

\* m[k] = v on a Go map
MapSet(m, k, v) == [x \in (DOMAIN m) \cup {k} |-> IF x = k THEN v ELSE m[x]]

RECURSIVE AllowlistLoop(_, _)
AllowlistLoop(items, otherAllowlistItems) ==
    IF otherAllowlistItems = <<>> THEN items
    ELSE AllowlistLoop(MapSet(items, Head(otherAllowlistItems), unit),
                       Tail(otherAllowlistItems))

\* func Allowlist(firstAllowlistItem, otherAllowlistItems...) allowlistT
Allowlist(firstAllowlistItem, otherAllowlistItems) ==
    [items |-> AllowlistLoop([x \in {firstAllowlistItem} |-> unit],
                             otherAllowlistItems)]

\* fmt.Errorf("... value %#v is not in allowlist %#v", value, a.items)
ValidationError(value, items) == [value |-> value, items |-> items]

ValidateNoCheck(a, value) == [val |-> hotcoalString(value), err |-> nil]

ValidateFoldsCase(a, value) ==
    LET lower(c) == IF c = "A" THEN "a" ELSE c
        v == [i \in 1..Len(value) |-> lower(value[i])]
    IN IF hotcoalString(v) \in DOMAIN a.items
       THEN [val |-> hotcoalString(value), err |-> nil]
       ELSE [val |-> hotcoalString(<<>>),
             err |-> ValidationError(value, a.items)]

ValidateEchoesOnError(a, value) ==
    IF hotcoalString(value) \in DOMAIN a.items
    THEN [val |-> hotcoalString(value), err |-> nil]
    ELSE [val |-> hotcoalString(value),
          err |-> ValidationError(value, a.items)]

\* func (a allowlistT) Validate(value string) (hotcoalString, error)
Validate(a, value) ==
    IF hotcoalString(value) \in DOMAIN a.items
    THEN [val |-> hotcoalString(value), err |-> nil]
    ELSE [val |-> hotcoalString(<<>>),
          err |-> ValidationError(value, a.items)]

\* func (a allowlistT) V(value string) (hotcoalString, error)
V(a, value) == Validate(a, value)

\* the outcome of a call that returns one hotcoalString or panics
Returned(v) == [val |-> v, err |-> nil, panic |-> nil]
Panicked(e) == [val |-> NoValue, err |-> nil, panic |-> e]

MustValidateSwallowsError(a, value) ==
    LET r == Validate(a, value) IN Returned(r.val)

\* func (a allowlistT) MustValidate(value string) hotcoalString
MustValidate(a, value) ==
    LET r == Validate(a, value)
    IN IF r.err # nil THEN Panicked(r.err) ELSE Returned(r.val)

\* func (a allowlistT) MV(value string) hotcoalString
MV(a, value) == MustValidate(a, value)

\* ------------------------------------------------------------------------
\* Go built-ins and standard library, as called by strings.go and strconv.go
\* ------------------------------------------------------------------------
\* the slice expression s[i:j] (indices from 0, j exclusive)
Slice(s, i, j) == SubSeq(s, i + 1, j)

ConcatSwapped(x, y) == hotcoalString(y.hs \o x.hs)

\* x + y on two hotcoalStrings
Concat(x, y) == hotcoalString(x.hs \o y.hs)

\* utf8.DecodeRuneInString(s): the width of the first rune; a byte that
\* starts no valid sequence is a RuneError of width 1
DecodeRuneWidth(s) ==
    IF Len(s) = 0 THEN 0
    ELSE IF s[1] = "C3" /\ Len(s) >= 2 /\ s[2] = "A9" THEN 2
    ELSE 1

RECURSIVE RuneCountInString(_)
RuneCountInString(s) ==
    IF Len(s) = 0 THEN 0
    ELSE 1 + RuneCountInString(Slice(s, DecodeRuneWidth(s), Len(s)))

\* strings.Index(s, substr): the first index of substr in s, or -1
stringsIndex(s, substr) ==
    LET hits == {i \in 0..(Len(s) - Len(substr)) :
                    Slice(s, i, i + Len(substr)) = substr}
    IN IF hits = {} THEN -1
       ELSE CHOOSE i \in hits : \A k \in hits : i <= k

RECURSIVE stringsCountLoop(_, _, _)
stringsCountLoop(s, substr, n) ==
    LET i == stringsIndex(s, substr)
    IN IF i = -1 THEN n
       ELSE stringsCountLoop(Slice(s, i + Len(substr), Len(s)), substr, n + 1)

stringsCountBytes(s, substr) ==
    IF Len(substr) = 0 THEN Len(s) + 1
    ELSE stringsCountLoop(s, substr, 0)

\* strings.Count(s, substr): the non-overlapping instances of substr in s
stringsCount(s, substr) ==
    IF Len(substr) = 0 THEN RuneCountInString(s) + 1
    ELSE stringsCountLoop(s, substr, 0)

RECURSIVE stringsJoinLoop(_, _, _)
stringsJoinLoop(b, rest, sep) ==
    IF rest = <<>> THEN b
    ELSE stringsJoinLoop(b \o sep \o Head(rest), Tail(rest), sep)

stringsJoinTrailingSep(elems, sep) ==
    IF Len(elems) = 0 THEN <<>>
    ELSE stringsJoinLoop(elems[1], Tail(elems), sep) \o sep

\* strings.Join(elems, sep)
stringsJoin(elems, sep) ==
    IF Len(elems) = 0 THEN <<>>
    ELSE IF Len(elems) = 1 THEN elems[1]
    ELSE stringsJoinLoop(elems[1], Tail(elems), sep)

\* the loop of strings.Replace: i replacements done, s[:start] consumed,
\* b the text built so far
RECURSIVE stringsReplaceLoop(_, _, _, _, _, _, _)
stringsReplaceLoop(s, old, new, n, i, start, b) ==
    IF i >= n THEN b \o Slice(s, start, Len(s))
    ELSE LET j == IF Len(old) = 0
                  THEN IF i > 0
                       THEN start + DecodeRuneWidth(Slice(s, start, Len(s)))
                       ELSE start
                  ELSE start + stringsIndex(Slice(s, start, Len(s)), old)
         IN stringsReplaceLoop(s, old, new, n, i + 1, j + Len(old),
                               b \o Slice(s, start, j) \o new)

stringsReplaceOnlyMinusOne(s, old, new, n) ==
    IF old = new \/ n = 0 THEN s
    ELSE LET m == stringsCount(s, old)
         IN IF m = 0 THEN s
            ELSE stringsReplaceLoop(s, old, new,
                                    IF n = -1 \/ m < n THEN m ELSE n,
                                    0, 0, <<>>)

stringsReplaceByteWide(s, old, new, n) ==
    IF old = new \/ n = 0 THEN s
    ELSE LET m == stringsCountBytes(s, old)
         IN IF m = 0 THEN s
            ELSE stringsReplaceLoop(s, old, new,
                                    IF n < 0 \/ m < n THEN m ELSE n,
                                    0, 0, <<>>)

stringsReplaceOneTooMany(s, old, new, n) ==
    IF old = new \/ n = 0 THEN s
    ELSE LET m == stringsCount(s, old)
         IN IF m = 0 THEN s
            ELSE stringsReplaceLoop(s, old, new,
                                    IF n < 0 \/ m <= n THEN m ELSE n + 1,
                                    0, 0, <<>>)

\* strings.Replace(s, old, new, n)
stringsReplace(s, old, new, n) ==
    IF old = new \/ n = 0 THEN s
    ELSE LET m == stringsCount(s, old)
         IN IF m = 0 THEN s
            ELSE stringsReplaceLoop(s, old, new,
                                    IF n < 0 \/ m < n THEN m ELSE n,
                                    0, 0, <<>>)

\* strings.ReplaceAll(s, old, new)
stringsReplaceAll(s, old, new) == stringsReplace(s, old, new, -1)

Digit == <<"0", "1", "2", "3", "4", "5", "6", "7", "8", "9">>

RECURSIVE Digits(_)
Digits(n) ==
    IF n < 10 THEN <<Digit[n + 1]>>
    ELSE Digits(n \div 10) \o <<Digit[(n % 10) + 1]>>

\* The width of int.  Go's int has 64 or 32 bits; the model keeps the
\* two's complement arithmetic of strconv and scales the width down.
IntBits == 16
TwoToIntBits == 2 ^ IntBits
MinInt == -(2 ^ (IntBits - 1))
MaxInt == 2 ^ (IntBits - 1) - 1

\* uint64(i)
uint(i) == i % TwoToIntBits

\* a broken formatBits that leaves out u = -u
formatBitsNoNegate(u, neg) ==
    IF neg THEN <<"-">> \o Digits(u) ELSE Digits(u)

\* strconv.formatBits(u, 10, neg): if neg { u = -u }, then the digits of u
formatBits(u, neg) ==
    IF neg THEN <<"-">> \o Digits((TwoToIntBits - u) % TwoToIntBits)
    ELSE Digits(u)

\* strconv.Itoa(i) = FormatInt(int64(i), 10)
strconvItoa(i) == formatBits(uint(i), i < 0)

\* ------------------------------------------------------------------------
\* strings.go
\* ------------------------------------------------------------------------
\* func Join(elems []hotcoalString, sep hotcoalString) hotcoalString
Join(elems, sep) ==
    LET stringElems == [i \in 1..Len(elems) |-> String(elems[i])]
        stringSep == String(sep)
        result == stringsJoin(stringElems, stringSep)
    IN hotcoalString(result)

\* func Replace(s, old, new hotcoalString, n int) hotcoalString
Replace(s, old, new, n) ==
    hotcoalString(stringsReplace(String(s), String(old), String(new), n))

\* func ReplaceAll(s, old, new hotcoalString) hotcoalString
ReplaceAll(s, old, new) ==
    hotcoalString(stringsReplaceAll(String(s), String(old), String(new)))

\* ------------------------------------------------------------------------
\* strconv.go
\* ------------------------------------------------------------------------
\* func Itoa(i int) hotcoalString
Itoa(i) == hotcoalString(strconvItoa(i))

\* ------------------------------------------------------------------------
\* The Go runtime under strings.Builder: byte slices over allocated arrays.
\* A slice is [arr, len]; its capacity is the length of the array it
\* points to.  The heap maps an address to the bytes of the array there,
\* <<>> at an address holding no array.
\* ------------------------------------------------------------------------
Arrays == {"p", "q", "r", "s"}

nilSlice == [arr |-> "nil", len |-> 0]

EmptyHeap == [p \in Arrays |-> <<>>]

\* a byte of an array past the length of every slice of it
Junk == "??"

cap(h, sl) == IF sl.arr = "nil" THEN 0 ELSE Len(h[sl.arr])

bytes(h, sl) == IF sl.arr = "nil" THEN <<>> ELSE SubSeq(h[sl.arr], 1, sl.len)

\* the allocator's size classes up to 1024 bytes
SizeClasses ==
    {0, 8, 16, 24, 32, 48, 64, 80, 96, 112, 128, 144, 160, 176, 192, 208, 224,
     240, 256, 288, 320, 352, 384, 416, 448, 480, 512, 576, 640, 704, 768,
     896, 1024}

\* runtime.roundupsize, for the sizes of the table
roundupsize(size) ==
    IF \E c \in SizeClasses : c >= size
    THEN CHOOSE c \in SizeClasses :
             c >= size /\ \A d \in SizeClasses : d >= size => c <= d
    ELSE size

RECURSIVE nextslicecapLoop(_, _)
nextslicecapLoop(newcap, newLen) ==
    LET c == newcap + ((newcap + 3 * 256) \div 4)
    IN IF c >= newLen THEN c ELSE nextslicecapLoop(c, newLen)

\* a broken nextslicecap that doubles whatever length is needed
nextslicecapDoubles(newLen, oldCap) == oldCap + oldCap

\* runtime.nextslicecap
nextslicecap(newLen, oldCap) ==
    LET doublecap == oldCap + oldCap
    IN IF newLen > doublecap THEN newLen
       ELSE IF oldCap < 256 THEN doublecap
       ELSE nextslicecapLoop(oldCap, newLen)

\* runtime.mallocgc: an address holding no array
mallocgc(h) == CHOOSE p \in Arrays : h[p] = <<>>

\* an array of n bytes that starts with content
array(content, n) ==
    [i \in 1..n |-> IF i <= Len(content) THEN content[i] ELSE Junk]

\* the garbage collector: only the arrays some pointer refers to stay,
\* and of an array that only strings refer to, the bytes of the longest
Collect(h, slices, strings) ==
    [p \in Arrays |->
        IF \E sl \in slices : sl.arr = p THEN h[p]
        ELSE IF \E s \in strings : s.arr = p
        THEN LET s == CHOOSE s \in strings :
                          s.arr = p /\ \A o \in strings : o.arr = p => o.len <= s.len
             IN SubSeq(h[p], 1, s.len)
        ELSE <<>>]

\* a broken append that writes at the start of the array
appendAtStart(h, sl, s) ==
    IF Len(s) = 0 THEN [heap |-> h, buf |-> sl]
    ELSE LET p == mallocgc(h)
         IN [heap |-> [h EXCEPT ![p] = array(s, roundupsize(Len(s)))],
             buf |-> [arr |-> p, len |-> Len(s)]]

\* append(sl, s...): in place while the capacity allows, else into a new
\* array of the capacity runtime.growslice computes for bytes
append(h, sl, s) ==
    LET newLen == sl.len + Len(s)
    IN IF newLen <= cap(h, sl)
       THEN [heap |-> IF Len(s) = 0 THEN h
                      ELSE [h EXCEPT ![sl.arr] =
                               SubSeq(@, 1, sl.len) \o s
                                   \o SubSeq(@, newLen + 1, Len(@))],
             buf |-> [arr |-> sl.arr, len |-> newLen]]
       ELSE LET p == mallocgc(h)
                newcap == roundupsize(nextslicecap(newLen, cap(h, sl)))
            IN [heap |-> [h EXCEPT ![p] = array(bytes(h, sl) \o s, newcap)],
                buf |-> [arr |-> p, len |-> newLen]]

\* ------------------------------------------------------------------------
\* strings.Builder, the stringBuilder field: [addr, buf]
\* ------------------------------------------------------------------------
ZeroStringsBuilder == [addr |-> "nil", buf |-> nilSlice]

\* the two allocations of strings.Builder.grow among Go releases: make,
\* of the capacity asked for, and bytealg.MakeNoZero, of its size class
Allocations == {"make", "MakeNoZero"}

copyCheck(sbr) == IF sbr.addr = "nil" THEN [sbr EXCEPT !.addr = "b"] ELSE sbr

stringsBuilderLen(sbr) == sbr.buf.len

stringsBuilderCap(h, sbr) == cap(h, sbr.buf)

\* unsafe.String(unsafe.SliceData(buf), len(buf)): a string over the
\* array of buf, no copy of it
unsafeString(buf) == [arr |-> buf.arr, len |-> buf.len]

stringsBuilderString(h, sbr) == bytes(h, unsafeString(sbr.buf))

stringsBuilderGrowPanic == [msg |-> "strings.Builder.Grow: negative count"]

stringsBuilderGrowMem(h, sbr, n, alloc) ==
    LET p == mallocgc(h)
        size == 2 * cap(h, sbr.buf) + n
        newcap == IF alloc = "MakeNoZero" THEN roundupsize(size) ELSE size
    IN [heap |-> [h EXCEPT ![p] = array(bytes(h, sbr.buf), newcap)],
        sb |-> [sbr EXCEPT !.buf.arr = p],
        panic |-> nil]

\* a broken Grow that drops the buffer before it panics
stringsBuilderGrowResetsOnPanic(h, sbr, n, alloc) ==
    LET c == copyCheck(sbr)
    IN IF n < 0
       THEN [heap |-> h, sb |-> [c EXCEPT !.buf = nilSlice],
             panic |-> stringsBuilderGrowPanic]
       ELSE IF cap(h, c.buf) - c.buf.len < n
       THEN stringsBuilderGrowMem(h, c, n, alloc)
       ELSE [heap |-> h, sb |-> c, panic |-> nil]

\* a broken Grow that reserves n bytes of capacity, not n bytes of room
stringsBuilderGrowToCap(h, sbr, n, alloc) ==
    LET c == copyCheck(sbr)
    IN IF n < 0 THEN [heap |-> h, sb |-> c, panic |-> stringsBuilderGrowPanic]
       ELSE IF cap(h, c.buf) < n
       THEN [heap |-> [h EXCEPT ![mallocgc(h)] = array(bytes(h, c.buf), n)],
             sb |-> [c EXCEPT !.buf.arr = mallocgc(h)],
             panic |-> nil]
       ELSE [heap |-> h, sb |-> c, panic |-> nil]

stringsBuilderGrow(h, sbr, n, alloc) ==
    LET c == copyCheck(sbr)
    IN IF n < 0 THEN [heap |-> h, sb |-> c, panic |-> stringsBuilderGrowPanic]
       ELSE IF cap(h, c.buf) - c.buf.len < n
       THEN stringsBuilderGrowMem(h, c, n, alloc)
       ELSE [heap |-> h, sb |-> c, panic |-> nil]

stringsBuilderWriteStringAtStart(h, sbr, s) ==
    LET c == copyCheck(sbr)
        a == appendAtStart(h, c.buf, s)
    IN [heap |-> a.heap, sb |-> [c EXCEPT !.buf = a.buf], n |-> Len(s), err |-> nil]

stringsBuilderWriteString(h, sbr, s) ==
    LET c == copyCheck(sbr)
        a == append(h, c.buf, s)
    IN [heap |-> a.heap, sb |-> [c EXCEPT !.buf = a.buf], n |-> Len(s), err |-> nil]

\* ------------------------------------------------------------------------
\* Builder (the second file of allowlist_test.go): [stringBuilder].  A
\* method that changes the Builder gives the heap and the Builder after it.
\* ------------------------------------------------------------------------
\* var b Builder
ZeroBuilder == [stringBuilder |-> ZeroStringsBuilder]

\* func (b *Builder) Cap() int
Cap(h, bld) == stringsBuilderCap(h, bld.stringBuilder)

\* func (b *Builder) Grow(n int)
Grow(h, bld, n, alloc) ==
    LET r == stringsBuilderGrow(h, bld.stringBuilder, n, alloc)
    IN [heap |-> r.heap, b |-> [stringBuilder |-> r.sb], panic |-> r.panic]

\* func (b *Builder) Len() int
BuilderLen(h, bld) == stringsBuilderLen(bld.stringBuilder)

\* func (b *Builder) Write(s hotcoalString) *Builder
Write(h, bld, s) ==
    LET r == stringsBuilderWriteString(h, bld.stringBuilder, String(s))
    IN [heap |-> r.heap, b |-> [stringBuilder |-> r.sb],
        panic |-> IF r.err # nil THEN r.err ELSE nil]

\* func (b *Builder) String() string
BuilderString(h, bld) == stringsBuilderString(h, bld.stringBuilder)

\* a broken HotcoalString that converts the whole array
HotcoalStringOfArray(h, bld) ==
    hotcoalString(bytes(h, [arr |-> bld.stringBuilder.buf.arr, len |-> Cap(h, bld)]))

\* func (b *Builder) HotcoalString() hotcoalString
HotcoalString(h, bld) == hotcoalString(BuilderString(h, bld))

\* a broken Reset that keeps the array: b.buf = b.buf[:0]
stringsBuilderResetTruncates(sbr) == [addr |-> "nil", buf |-> [sbr.buf EXCEPT !.len = 0]]

\* a broken Reset that does nothing
stringsBuilderResetNothing(sbr) == sbr

\* b.addr = nil; b.buf = nil
stringsBuilderReset(sbr) == [addr |-> "nil", buf |-> nilSlice]

\* func (b *Builder) Reset()
Reset(h, bld) ==
    [heap |-> h, b |-> [stringBuilder |-> stringsBuilderReset(bld.stringBuilder)],
     panic |-> nil]

\* the slice of the Builder
BuilderSlices(bld) == {bld.stringBuilder.buf}

\* ------------------------------------------------------------------------
\* State
\* ------------------------------------------------------------------------
VARIABLES
    allowlist,  \* the allowlistT the callers hold
    call,       \* the last call made: [op, args]
    ret,        \* what it returned: [val, err, panic]
    str,        \* String() of the returned hotcoalString, when there is one
    held,       \* the hotcoalString variable of the program
    b,          \* the Builder of the program
    heap,       \* the arrays of the Builder and of the strings taken from it
    pc,         \* validateColumnName: the statement to run next
    view,       \* the string variables x and y: [arr, len, was] each
    written,    \* the fragments written since creation or the last Reset
    reserve,    \* the last Grow(n): [cap, left], left the bytes not yet used
    threads,    \* the concurrent callers: what each is doing
    mu          \* the mutex of the callers that lock: its holder

vars == <<allowlist, call, ret, str, held, b, heap, pc,
          view, written, reserve, threads, mu>>

\* the state of the Builder claims and of the concurrent callers
aux == <<view, written, reserve, threads, mu>>

NoCall == [op |-> "none", args |-> <<>>]
NoRet == [val |-> NoValue, err |-> nil, panic |-> nil]
NoStr == <<"<none>">>
\* var hs hotcoalString: the zero value, produced by no operation
ZeroValue == [val |-> hotcoalString(<<>>), by |-> "zero"]
emptyString == [arr |-> "nil", len |-> 0, was |-> <<>>]
NoView == [x |-> emptyString, y |-> emptyString]
NoReserve == [cap |-> 0, left |-> -1]
\* the mutex of the callers: 0 with no holder, else the caller holding it
Free == 0

\* no Builder claim is at work and nobody calls concurrently
AuxIdle ==
    /\ view = NoView
    /\ written = <<>>
    /\ reserve = NoReserve
    /\ threads = <<>>
    /\ mu = Free

HLiterals == {hotcoalString(l) : l \in Literals}

\* every Allowlist(first, others...) call within the bounds
Allowlists ==
    {Allowlist(first, others) :
        first \in HLiterals, others \in StrUpTo(HLiterals, MaxOthers)}

\* ------------------------------------------------------------------------
\* SpecCalls: single calls of hotcoal.go and allowlist.go, as the tests
\* make them: the call, then String() on the hotcoalString it returned
\* ------------------------------------------------------------------------
InitCalls ==
    /\ allowlist \in Allowlists
    /\ call = NoCall
    /\ ret = NoRet
    /\ str = NoStr
    /\ held = ZeroValue
    /\ b = ZeroBuilder
    /\ heap = EmptyHeap
    /\ AuxIdle
    /\ pc = "-"

\* hs.String() on the first return value
StringOf(r) == IF r.val = NoValue THEN NoStr ELSE String(r.val)

Record(op, args, r) ==
    /\ call' = [op |-> op, args |-> args]
    /\ ret' = r
    /\ str' = StringOf(r)
    /\ UNCHANGED <<allowlist, held, b, heap, pc, aux>>

CallWrap == \E l \in Literals : Record("Wrap", <<l>>, Returned(Wrap(hotcoalString(l))))

CallW == \E l \in Literals : Record("W", <<l>>, Returned(W(hotcoalString(l))))

CallValidate ==
    \E value \in RuntimeValues :
        LET r == Validate(allowlist, value)
        IN Record("Validate", <<value>>, [val |-> r.val, err |-> r.err, panic |-> nil])

CallV ==
    \E value \in RuntimeValues :
        LET r == V(allowlist, value)
        IN Record("V", <<value>>, [val |-> r.val, err |-> r.err, panic |-> nil])

CallMustValidate ==
    \E value \in RuntimeValues :
        Record("MustValidate", <<value>>, MustValidate(allowlist, value))

CallMV ==
    \E value \in RuntimeValues :
        Record("MV", <<value>>, MV(allowlist, value))

NextCalls ==
    \/ CallWrap
    \/ CallW
    \/ CallValidate
    \/ CallV
    \/ CallMustValidate
    \/ CallMV

SpecCalls == InitCalls /\ [][NextCalls]_vars

ValidateOps == {"Validate", "V"}
MustValidateOps == {"MustValidate", "MV"}

\* the construction items of the allowlist held
Items == DOMAIN allowlist.items

\* C1: Validate(v) and V(v) return a nil error if and only if v is, byte for
\* byte, one of the construction items of the allowlist; on success the
\* content of the returned hotcoalString is v unchanged.
C1_ValidateIffMember ==
    call.op \in ValidateOps =>
        LET v == call.args[1]
        IN /\ (ret.err = nil) <=> (\E item \in Items : String(item) = v)
           /\ ret.err = nil => str = v

C1_Witness ==
    /\ call.op \in ValidateOps
    /\ ret.err = nil
    /\ str = <<"a">>
    /\ hotcoalString(<<"a">>) \in Items

\* a rejected value that differs from an item only in case
C1_WitnessCase ==
    /\ call.op \in ValidateOps
    /\ call.args[1] = <<"A">>
    /\ hotcoalString(<<"a">>) \in Items
    /\ ret.err # nil

\* C3: for v outside the allowlist Validate returns a non-nil error and
\* the empty hotcoalString, and the error carries v and the allowlist's
\* contents; the error is nil exactly for members, the empty string too.
C3_ValidateError ==
    call.op \in ValidateOps =>
        LET v == call.args[1]
            member == hotcoalString(v) \in Items
        IN /\ (ret.err = nil) <=> member
           /\ ~member =>
                /\ ret.val = hotcoalString(<<>>)
                /\ str = <<>>
                /\ ret.err.value = v
                /\ ret.err.items = allowlist.items
           /\ ret.panic = nil

C3_Witness ==
    /\ call.op \in ValidateOps
    /\ call.args[1] = <<"b">>
    /\ Items = {hotcoalString(<<"a">>), hotcoalString(<<>>)}
    /\ ret.err # nil

\* the empty string as an allowlist item is accepted
C3_WitnessEmptyItem ==
    /\ call.op \in ValidateOps
    /\ call.args[1] = <<>>
    /\ hotcoalString(<<>>) \in Items
    /\ ret.err = nil

\* C4: MustValidate(v) and MV(v) return what Validate(v) returns when v is
\* in the allowlist, and panic without returning a value when it is not.
C4_MustValidate ==
    call.op \in MustValidateOps =>
        LET v == call.args[1]
            member == hotcoalString(v) \in Items
        IN /\ member =>
                /\ ret.panic = nil
                /\ ret.val = Validate(allowlist, v).val
                /\ str = v
           /\ ~member =>
                /\ ret.panic # nil
                /\ ret.val = NoValue
                /\ str = NoStr

C4_Witness ==
    /\ call.op \in MustValidateOps
    /\ hotcoalString(call.args[1]) \notin Items
    /\ ret.panic # nil

C4_WitnessMember ==
    /\ call.op \in MustValidateOps
    /\ hotcoalString(call.args[1]) \in Items
    /\ ret.val = hotcoalString(call.args[1])

\* C5: Wrap(l) and W(l) always return, String() of the result is exactly
\* l, and W(l) is the value Wrap(l) is.
C5_WrapRoundTrip ==
    call.op \in {"Wrap", "W"} =>
        LET l == call.args[1]
        IN /\ ret.panic = nil /\ ret.err = nil
           /\ str = l
           /\ ret.val = Wrap(hotcoalString(l))
           /\ ret.val = W(hotcoalString(l))

C5_Witness == call.op = "W" /\ str = <<"b">>

\* ------------------------------------------------------------------------
\* Spec: the library machine.  A program holds an allowlist, one variable
\* of type hotcoalString (held, with the operation that produced it) and
\* one Builder, and calls any exported operation in any order.  An
\* argument of type hotcoalString is an untyped string constant or the
\* value held: the compiler accepts nothing else (nocompile/main.go).  An
\* argument of type string or int is any runtime value, a String() of what
\* the program holds included.
\* ------------------------------------------------------------------------
\* the string constants of the program
MachineLits == {hotcoalString(<<>>), hotcoalString(<<"a">>)}

\* the bytes "A" and "x" occur in runtime input only
MachineInputs == {<<>>, <<"a">>, <<"A">>, <<"a", "x">>}

MachineInts == {-1, 0}

Init ==
    /\ allowlist \in {Allowlist(first, others) :
                         first \in MachineLits, others \in StrUpTo(MachineLits, 1)}
    /\ call = NoCall
    /\ ret = NoRet
    /\ str = NoStr
    /\ held = ZeroValue
    /\ b = ZeroBuilder
    /\ heap = EmptyHeap
    /\ AuxIdle
    /\ pc = "-"

\* what the program can pass where a hotcoalString is required
Operands == MachineLits \cup {held.val}

\* what the program can pass where a string is required
Inputs == MachineInputs \cup {String(held.val), BuilderString(heap, b)}

\* held = v, the result of operation op
Hold(v, op) ==
    /\ Len(String(v)) <= MaxLen
    /\ held' = [val |-> v, by |-> op]
    /\ UNCHANGED <<allowlist, call, ret, str, b, heap, pc, aux>>

DoWrap == \E s \in Operands : Hold(Wrap(s), "Wrap")

DoW == \E s \in Operands : Hold(W(s), "W")

\* held, err = allowlist.Validate(value): with a non-nil error the value
\* returned is no result of a validation
DoValidate ==
    \E value \in Inputs :
        LET r == Validate(allowlist, value)
        IN Hold(r.val, IF r.err = nil THEN "Validate" ELSE "zero")

DoV ==
    \E value \in Inputs :
        LET r == V(allowlist, value)
        IN Hold(r.val, IF r.err = nil THEN "V" ELSE "zero")

\* held = allowlist.MustValidate(value): a panic assigns nothing, and the
\* program recovers as TestAllowlist does
DoMustValidate ==
    \E value \in Inputs :
        LET r == MustValidate(allowlist, value)
        IN IF r.panic = nil THEN Hold(r.val, "MustValidate") ELSE UNCHANGED vars

DoMV ==
    \E value \in Inputs :
        LET r == MV(allowlist, value)
        IN IF r.panic = nil THEN Hold(r.val, "MV") ELSE UNCHANGED vars

DoConcat == \E x \in Operands, y \in Operands : Hold(Concat(x, y), "Concat")

DoJoin ==
    \E elems \in StrUpTo(Operands, 2), sep \in Operands :
        Hold(Join(elems, sep), "Join")

DoReplace ==
    \E s \in Operands, old \in Operands, new \in Operands, n \in {-1, 1} :
        Hold(Replace(s, old, new, n), "Replace")

DoReplaceAll ==
    \E s \in Operands, old \in Operands, new \in Operands :
        Hold(ReplaceAll(s, old, new), "ReplaceAll")

DoItoa == \E i \in MachineInts : Hold(Itoa(i), "Itoa")

DoBuilderWrite ==
    \E s \in Operands :
        /\ BuilderLen(heap, b) + Len(String(s)) <= MaxLen
        /\ LET r == Write(heap, b, s)
           IN /\ b' = r.b
              /\ heap' = Collect(r.heap, BuilderSlices(r.b), {})
        /\ UNCHANGED <<allowlist, call, ret, str, held, pc, aux>>

DoBuilderHotcoalString == Hold(HotcoalString(heap, b), "HotcoalString")

DoBuilderReset ==
    /\ LET r == Reset(heap, b)
       IN /\ b' = r.b
          /\ heap' = Collect(r.heap, BuilderSlices(r.b), {})
    /\ UNCHANGED <<allowlist, call, ret, str, held, pc, aux>>

Next ==
    \/ DoWrap
    \/ DoW
    \/ DoValidate
    \/ DoV
    \/ DoMustValidate
    \/ DoMV
    \/ DoConcat
    \/ DoJoin
    \/ DoReplace
    \/ DoReplaceAll
    \/ DoItoa
    \/ DoBuilderWrite
    \/ DoBuilderHotcoalString
    \/ DoBuilderReset

Spec == Init /\ [][Next]_vars

WrapOps == {"Wrap", "W"}
CompositionOps == {"Concat", "Join", "Replace", "ReplaceAll", "HotcoalString"}

BytesOf(t) == {t[i] : i \in 1..Len(t)}

\* the bytes found in string constants and in renderings of integers
ConstantBytes == UNION {BytesOf(String(l)) : l \in MachineLits}
IntegerBytes == {"-"} \cup {Digit[i] : i \in 1..10}

first_name ==
    <<"f", "i", "r", "s", "t", "_", "n", "a", "m", "e">>
middle_name ==
    <<"m", "i", "d", "d", "l", "e", "_", "n", "a", "m", "e">>
last_name ==
    <<"l", "a", "s", "t", "_", "n", "a", "m", "e">>
Injection ==
    <<"t", "r", "u", "e", ";", " ", "D", "R", "O", "P", " ", "T", "A",
    "B", "L", "E", " ", "u", "s", "e", "r", "s", ";", " ", "-", "-">>
Larry ==
    <<"L", "a", "r", "r", "y">>
SelectCountWhere ==
    <<"S", "E", "L", "E", "C", "T", " ", "C", "O", "U", "N", "T", "(",
    "*", ")", " ", "F", "R", "O", "M", " ", "u", "s", "e", "r", "s", " ",
    "W", "H", "E", "R", "E", " ">>
EqualsParam ==
    <<" ", "=", " ", "?", ";">>

Prefixes(t) == {SubSeq(t, 1, k) : k \in 0..Len(t)}

\* the column names tried: the three items, every prefix of one, an item
\* in another case or with a space after it, a column that is not listed,
\* and the injection
ColumnNames ==
    Prefixes(first_name) \cup Prefixes(middle_name) \cup Prefixes(last_name)
    \cup {[first_name EXCEPT ![1] = "F"], last_name \o <<" ">>,
          <<"n", "i", "c", "k", "n", "a", "m", "e">>, Injection}

\* var a allowlistT: the zero value, a nil map
ZeroAllowlist == [items |-> <<>>]

InitQuery ==
    /\ allowlist = ZeroAllowlist
    /\ call \in {[op |-> "validateColumnName", args |-> <<columnName, value>>] :
                    columnName \in ColumnNames, value \in {Larry, Injection}}
    /\ ret = NoRet
    /\ str = NoStr
    /\ held = ZeroValue
    /\ b = ZeroBuilder
    /\ heap = EmptyHeap
    /\ AuxIdle
    /\ pc = "validate"

\* validatedColumnName, err := hotcoal.Allowlist(...).Validate(columnName)
QueryValidate ==
    /\ pc = "validate"
    /\ allowlist' = Allowlist(hotcoalString(first_name),
                              <<hotcoalString(middle_name), hotcoalString(last_name)>>)
    /\ LET r == Validate(allowlist', call.args[1])
       IN /\ ret' = [val |-> r.val, err |-> r.err, panic |-> nil]
          /\ pc' = IF r.err # nil THEN "return err" ELSE "compose"
    /\ UNCHANGED <<call, str, held, b, heap, aux>>

\* return "", err
QueryReturnError ==
    /\ pc = "return err"
    /\ str' = <<>>
    /\ pc' = "done"
    /\ UNCHANGED <<allowlist, call, ret, held, b, heap, aux>>

\* query := Wrap("SELECT ...") + validatedColumnName + Wrap(" = ?;")
\* return query.String(), nil
QueryCompose ==
    /\ pc = "compose"
    /\ held' = [val |-> Concat(Concat(Wrap(hotcoalString(SelectCountWhere)), ret.val),
                                Wrap(hotcoalString(EqualsParam))),
                by |-> "Concat"]
    /\ str' = String(held'.val)
    /\ pc' = "done"
    /\ UNCHANGED <<allowlist, call, ret, b, heap, aux>>

NextQuery ==
    \/ QueryValidate
    \/ QueryReturnError
    \/ QueryCompose

SpecQuery == InitQuery /\ [][NextQuery]_vars

ThreeColumns == {first_name, middle_name, last_name}

\* C6: with the allowlist {first_name, middle_name, last_name}, for every
\* column name c, validateColumnName either returns a validation error and
\* no query, or returns "SELECT COUNT(*) FROM users WHERE " + c + " = ?;"
\* with c one of the three items; "true; DROP TABLE users; --" is an error.
C6_QueryOrError ==
    pc = "done" =>
        LET c == call.args[1]
        IN /\ \/ /\ ret.err # nil
                 /\ ret.err.value = c
                 /\ str = <<>>
                 /\ held = ZeroValue
              \/ /\ ret.err = nil
                 /\ c \in ThreeColumns
                 /\ str = SelectCountWhere \o c \o EqualsParam
           /\ c \notin ThreeColumns => ret.err # nil
           /\ c = Injection => ret.err # nil

C6_Witness ==
    /\ pc = "done"
    /\ call.args[1] = middle_name
    /\ str = SelectCountWhere \o middle_name \o EqualsParam
    /\ Len(str) = 49

C6_WitnessInjection ==
    /\ pc = "done"
    /\ call.args[1] = Injection
    /\ ret.err # nil /\ str = <<>>

\* ------------------------------------------------------------------------
\* SpecStrings: one call of Join, Replace or ReplaceAll on arguments drawn
\* from bounded sets, and the calls of strings_test.go
\* ------------------------------------------------------------------------
HS(S, n) == {hotcoalString(x) : x \in StrUpTo(S, n)}

Text(t) == hotcoalString(t)

\* s[p : p+len(sub)] == sub
OccursAt(s, sub, p) ==
    p + Len(sub) <= Len(s) /\ Slice(s, p, p + Len(sub)) = sub

\* the values of old tried on s: everything that occurs in s, and every
\* string of at most one byte
Olds(s) ==
    {x \in StrUpTo(StrBytes, MaxOld) :
        Len(x) <= 1 \/ \E p \in 0..Len(s) : OccursAt(s, x, p)}

\* a call of op with the arguments args
CallOf(op, args) == [op |-> op, args |-> args]

aaaaa == <<"a", "a", "a", "a", "a">>

\* TestJoin, TestReplace, TestReplaceAll, and the empty-old example
ExampleJoin ==
    [op |-> "Join",
     args |-> <<(<<Text(<<"f", "o", "o">>), Text(<<"b", "a", "r">>),
                   Text(<<"t", "a", "r">>)>>), Text(<<"-">>)>>]
ExampleReplace ==
    [op |-> "Replace", args |-> <<Text(aaaaa), Text(<<"a">>), Text(<<"b">>), 3>>]
ExampleReplaceAll ==
    [op |-> "ReplaceAll", args |-> <<Text(aaaaa), Text(<<"a">>), Text(<<"b">>)>>]
ExampleEmptyOld ==
    [op |-> "Replace", args |-> <<Text(<<"a", "b">>), Text(<<>>), Text(<<"-">>), -1>>]

InitStrings ==
    /\ allowlist = Allowlist(hotcoalString(<<"a">>), <<>>)
    /\ \/ \E elems \in StrUpTo(HS(NewBytes, MaxElem), MaxElems),
             sep \in HS(SepBytes, MaxSep) :
               call = CallOf("Join", <<elems, sep>>)
       \/ \E s \in StrUpTo(StrBytes, MaxS) :
            \E old \in Olds(s), new \in HS(NewBytes, MaxNew), n \in (-2)..MaxN :
               call = CallOf("Replace", <<hotcoalString(s), hotcoalString(old), new, n>>)
       \/ \E s \in StrUpTo(StrBytes, MaxS) :
            \E old \in Olds(s), new \in HS(NewBytes, MaxNew) :
               call = CallOf("ReplaceAll", <<hotcoalString(s), hotcoalString(old), new>>)
       \/ call = ExampleJoin
       \/ call \in {ExampleReplace, ExampleEmptyOld}
       \/ call = ExampleReplaceAll
    /\ ret = NoRet
    /\ str = NoStr
    /\ held = ZeroValue
    /\ b = ZeroBuilder
    /\ heap = EmptyHeap
    /\ AuxIdle
    /\ pc = "-"

Returns(r) ==
    /\ ret' = r
    /\ str' = StringOf(r)
    /\ UNCHANGED <<allowlist, call, held, b, heap, pc, aux>>

CallJoin ==
    /\ call.op = "Join" /\ ret.val = NoValue
    /\ Returns(Returned(Join(call.args[1], call.args[2])))

CallReplace ==
    /\ call.op = "Replace" /\ ret.val = NoValue
    /\ Returns(Returned(Replace(call.args[1], call.args[2], call.args[3], call.args[4])))

CallReplaceAll ==
    /\ call.op = "ReplaceAll" /\ ret.val = NoValue
    /\ Returns(Returned(ReplaceAll(call.args[1], call.args[2], call.args[3])))

NextStrings ==
    \/ CallJoin
    \/ CallReplace
    \/ CallReplaceAll

SpecStrings == InitStrings /\ [][NextStrings]_vars

\* the call has returned
Done == ret.val # NoValue

Min(x, y) == IF x <= y THEN x ELSE y

\* where element i (from 1) of a joined text starts (offset from 0)
RECURSIVE JoinOffset(_, _, _)
JoinOffset(elems, sep, i) ==
    IF i = 1 THEN 0
    ELSE JoinOffset(elems, sep, i - 1) + Len(elems[i - 1].hs) + Len(sep.hs)

\* C7: Join(elems, sep) is the elements in order with sep between each two
\* consecutive ones: the empty hotcoalString for no element, the element
\* itself for one, and for [x, y, z] the value
\* concat(concat(concat(x, sep), y), concat(sep, z)).
C7_Join ==
    (call.op = "Join" /\ Done) =>
        LET elems == call.args[1]
            sep == call.args[2]
            n == Len(elems)
            off(i) == JoinOffset(elems, sep, i)
        IN /\ n = 0 => ret.val = hotcoalString(<<>>)
           /\ n = 1 => ret.val = elems[1]
           /\ n = 3 => ret.val = Concat(Concat(Concat(elems[1], sep), elems[2]),
                                        Concat(sep, elems[3]))
           /\ n >= 1 =>
                /\ Len(str) = off(n) + Len(elems[n].hs)
                /\ \A i \in 1..n : OccursAt(str, elems[i].hs, off(i))
                /\ \A i \in 1..(n - 1) :
                      OccursAt(str, sep.hs, off(i) + Len(elems[i].hs))

C7_Witness ==
    /\ call = ExampleJoin /\ Done
    /\ str = <<"f", "o", "o", "-", "b", "a", "r", "-", "t", "a", "r">>

\* one element with a non-empty separator: the separator is unused
C7_WitnessOne ==
    /\ call.op = "Join" /\ Done
    /\ Len(call.args[1]) = 1 /\ call.args[2] = Text(<<"-">>)
    /\ str = <<"b">>

\* the offsets at which old occurs in s
Occurrences(s, old) == {p \in 0..Len(s) : OccursAt(s, old, p)}

\* P holds the first occurrences of old found scanning s left to right and
\* skipping what overlaps an occurrence already taken: every occurrence
\* before `upto` that is not in P overlaps an earlier member of P
FirstOccurrences(s, old, P, upto) ==
    /\ P \subseteq Occurrences(s, old)
    /\ \A p \in P, q \in P : p < q => p + Len(old) <= q
    /\ \A r \in Occurrences(s, old) \ P :
          r < upto => \E p \in P : p < r /\ r < p + Len(old)

\* k: the number of non-overlapping occurrences of a non-empty old in s
NonOverlapping(s, old) ==
    CHOOSE P \in SUBSET Occurrences(s, old) :
        FirstOccurrences(s, old, P, Len(s) + 1)

\* s with new in place of the oldLen bytes at each offset of P, from
\* offset i on
RECURSIVE Substitute(_, _, _, _, _)
Substitute(s, P, oldLen, new, i) ==
    IF i >= Len(s) THEN <<>>
    ELSE IF i \in P THEN new \o Substitute(s, P, oldLen, new, i + oldLen)
    ELSE <<s[i + 1]>> \o Substitute(s, P, oldLen, new, i + 1)

\* C8: for a non-empty old and n >= 0, Replace(s, old, new, n) is s with its
\* first min(n, k) non-overlapping occurrences of old, scanning left to
\* right, replaced by new and every other byte in place, k being the number
\* of non-overlapping occurrences.
C8_ReplaceFirstN ==
    (call.op = "Replace" /\ Done /\ call.args[2].hs # <<>> /\ call.args[4] >= 0) =>
        LET s == call.args[1].hs
            old == call.args[2].hs
            new == call.args[3].hs
            n == call.args[4]
            k == Cardinality(NonOverlapping(s, old))
        IN \E P \in SUBSET Occurrences(s, old) :
              /\ Cardinality(P) = Min(n, k)
              /\ \A p \in P : FirstOccurrences(s, old, P, p)
              /\ str = Substitute(s, P, Len(old), new, 0)

C8_Witness ==
    /\ call = ExampleReplace /\ Done
    /\ str = <<"b", "b", "b", "a", "a">>

\* overlapping occurrences: "aaa" holds "aa" at 0 and at 1, one is replaced
C8_WitnessOverlap ==
    /\ call.op = "Replace" /\ Done
    /\ call.args[1] = Text(<<"a", "a", "a">>) /\ call.args[2] = Text(<<"a", "a">>)
    /\ call.args[3] = Text(<<"b">>) /\ call.args[4] = 2
    /\ str = <<"b", "a">>

\* C9: Replace(s, old, new, 0) is s, and for every negative n
\* Replace(s, old, new, n) is ReplaceAll(s, old, new); old may be empty.
C9_ReplaceZeroAndAll ==
    (call.op = "Replace" /\ Done) =>
        /\ call.args[4] = 0 => ret.val = call.args[1]
        /\ call.args[4] < 0 =>
              ret.val = ReplaceAll(call.args[1], call.args[2], call.args[3])

C9_Witness ==
    /\ call.op = "Replace" /\ Done
    /\ call.args[4] = -2
    /\ call.args[1] = Text(<<"a", "C3", "a">>) /\ call.args[2] = Text(<<"a">>)
    /\ str = <<"b", "C3", "b">>

C9_WitnessZero ==
    /\ call.op = "Replace" /\ Done
    /\ call.args[4] = 0
    /\ call.args[2] = Text(<<>>) /\ call.args[3] = Text(<<"b">>)
    /\ str = <<"a", "a">>

\* the offsets of s at which a character ends, the start of s included;
\* a character is one UTF-8 sequence, or one byte that belongs to none
RECURSIVE CharacterEnds(_, _)
CharacterEnds(s, i) ==
    IF i >= Len(s) THEN {i}
    ELSE {i} \cup CharacterEnds(s, i + DecodeRuneWidth(Slice(s, i, Len(s))))

\* s with new inserted at each offset of P, from offset i on
RECURSIVE InsertAt(_, _, _, _)
InsertAt(s, P, new, i) ==
    (IF i \in P THEN new ELSE <<>>)
    \o (IF i >= Len(s) THEN <<>> ELSE <<s[i + 1]>> \o InsertAt(s, P, new, i + 1))

\* C10: with old empty, Replace and ReplaceAll match at the start of s and
\* after every character of s: without a limit (n < 0) new is inserted
\* length(s) + 1 times, length counted in characters, and with n >= 0 the
\* first min(n, length(s) + 1) of those positions receive new.
C10_EmptyOld ==
    (call.op \in {"Replace", "ReplaceAll"} /\ Done /\ call.args[2].hs = <<>>) =>
        LET s == call.args[1].hs
            new == call.args[3].hs
            ends == CharacterEnds(s, 0)
            all == Cardinality(ends)
            m == IF call.op = "ReplaceAll" \/ call.args[4] < 0 THEN all
                 ELSE Min(call.args[4], all)
        IN /\ Len(str) = Len(s) + m * Len(new)
           /\ \E P \in SUBSET ends :
                /\ Cardinality(P) = m
                /\ \A p \in P, q \in ends : q < p => q \in P
                /\ str = InsertAt(s, P, new, 0)

C10_Witness ==
    /\ call = ExampleEmptyOld /\ Done
    /\ str = <<"-", "a", "-", "b", "-">>

\* a two-byte character is one character: new goes around it, not into it
C10_WitnessTwoBytes ==
    /\ call.op = "ReplaceAll" /\ Done
    /\ call.args[1] = Text(<<"C3", "A9">>) /\ call.args[2] = Text(<<>>)
    /\ str = <<"b", "C3", "A9", "b">>

\* a limit below the number of positions
C10_WitnessLimit ==
    /\ call.op = "Replace" /\ Done
    /\ call.args[1] = Text(<<"a", "a">>) /\ call.args[2] = Text(<<>>)
    /\ call.args[4] = 2
    /\ str = <<"b", "a", "b", "a">>

\* ------------------------------------------------------------------------
\* SpecBuilder: one goroutine owns a Builder that starts as the zero value
\* and calls its methods in any order, as TestBuilder does
\* ------------------------------------------------------------------------
MaxWrites == 3
MaxCap == 80

\* b.Grow(64) of TestBuilder
TestGrow == 64

GrowArgs == {-1, 0, 4, TestGrow}

\* the fragments written: "", "a", and "foo" of TestBuilder
foo == <<"f", "o", "o">>
Fragments == {hotcoalString(<<>>), hotcoalString(<<"a">>), hotcoalString(foo)}

InitBuilder ==
    /\ allowlist = Allowlist(hotcoalString(<<"a">>), <<>>)
    /\ call = NoCall
    /\ ret = NoRet
    /\ str = NoStr
    /\ held = ZeroValue
    /\ b = ZeroBuilder
    /\ heap = EmptyHeap
    /\ pc = "-"
    /\ AuxIdle

\* the call made and its outcome; the arrays nothing points to are freed
Called(c, r) ==
    /\ Cap(r.heap, r.b) <= MaxCap
    /\ call' = c
    /\ ret' = IF r.panic = nil THEN NoRet ELSE Panicked(r.panic)
    /\ b' = r.b
    /\ heap' = Collect(r.heap, BuilderSlices(r.b), {})
    /\ UNCHANGED <<allowlist, held, pc, view, threads, mu>>

\* what is left of the room the last Grow made, after k more bytes
Reserved(res, k) ==
    IF res.left >= k THEN [res EXCEPT !.left = @ - k] ELSE NoReserve

BuilderGrow ==
    \E n \in GrowArgs, alloc \in Allocations :
        LET r == Grow(heap, b, n, alloc)
        IN /\ Called([op |-> "Grow", args |-> <<n>>], r)
           /\ str' = NoStr
           /\ reserve' = IF r.panic = nil
                         THEN [cap |-> Cap(r.heap, r.b), left |-> n]
                         ELSE reserve
           /\ UNCHANGED written

BuilderWrite ==
    \E s \in Fragments :
        LET r == Write(heap, b, s)
        IN /\ Len(written) < MaxWrites
           /\ Called([op |-> "Write", args |-> <<>>], r)
           /\ str' = NoStr
           /\ written' = Append(written, String(s))
           /\ reserve' = Reserved(reserve, Len(String(s)))

\* b.Write(x).Write(y): the second Write is on the Builder the first returns
BuilderWriteWrite ==
    \E x \in Fragments, y \in Fragments :
        LET r1 == Write(heap, b, x)
            r2 == Write(r1.heap, r1.b, y)
        IN /\ Len(written) + 1 < MaxWrites
           /\ Called([op |-> "Write.Write", args |-> <<>>], r2)
           /\ str' = NoStr
           /\ written' = written \o <<String(x), String(y)>>
           /\ reserve' = Reserved(Reserved(reserve, Len(String(x))), Len(String(y)))

\* from: Len() and Cap() of the Builder the Reset was called on
BuilderReset ==
    /\ Called([op |-> "Reset", args |-> <<>>,
               from |-> [Len |-> BuilderLen(heap, b), Cap |-> Cap(heap, b)]],
              Reset(heap, b))
    /\ str' = NoStr
    /\ written' = <<>>
    /\ reserve' = NoReserve

\* s := b.String()
BuilderTakeString ==
    /\ Called([op |-> "String", args |-> <<>>], [heap |-> heap, b |-> b, panic |-> nil])
    /\ str' = BuilderString(heap, b)
    /\ UNCHANGED <<written, reserve>>

\* s := b.HotcoalString().String()
BuilderTakeHotcoalString ==
    /\ Called([op |-> "HotcoalString", args |-> <<>>], [heap |-> heap, b |-> b, panic |-> nil])
    /\ str' = String(HotcoalString(heap, b))
    /\ UNCHANGED <<written, reserve>>

NextBuilder ==
    \/ BuilderGrow
    \/ BuilderWrite
    \/ BuilderWriteWrite
    \/ BuilderReset
    \/ BuilderTakeString
    \/ BuilderTakeHotcoalString

SpecBuilder == InitBuilder /\ [][NextBuilder]_vars

RECURSIVE Flatten(_)
Flatten(fragments) ==
    IF fragments = <<>> THEN <<>>
    ELSE Head(fragments) \o Flatten(Tail(fragments))

\* C11: after any sequence of Write, Grow and Reset on a Builder that
\* started as the zero value, String() and HotcoalString() are the
\* fragments written since creation or the last Reset, concatenated in
\* the order written; b.Write(x).Write(y) is among the steps, and leaves
\* what Write(x) and then Write(y) leave
C11_ContentIsWritten ==
    /\ BuilderString(heap, b) = Flatten(written)
    /\ HotcoalString(heap, b) = hotcoalString(Flatten(written))

\* a chained Write after a Grow, with an earlier fragment in the buffer
C11_Witness ==
    /\ call.op = "Write.Write"
    /\ written = <<foo, <<"a">>, foo>>
    /\ BuilderString(heap, b) = foo \o <<"a">> \o foo
    /\ Cap(heap, b) = 16

\* content written after a Reset of a buffer that held content
C11_WitnessAfterReset ==
    /\ call.op = "Write"
    /\ written = <<<<"a">>>>
    /\ BuilderString(heap, b) = <<"a">>
    /\ Cap(heap, b) = 8
    /\ reserve = NoReserve

\* C12: right after Reset(), whatever the Builder was before, Len() is 0,
\* Cap() is 0 and String() is the empty string
C12_ResetEmpties ==
    call.op = "Reset" =>
        /\ BuilderLen(heap, b) = 0
        /\ Cap(heap, b) = 0
        /\ BuilderString(heap, b) = <<>>

\* Reset of a Builder that held content
C12_Witness ==
    /\ call.op = "Reset"
    /\ call.from.Len = 7
    /\ Cap(heap, b) = 0

\* Reset of a Builder that was grown and held nothing
C12_WitnessGrown ==
    /\ call.op = "Reset"
    /\ call.from = [Len |-> 0, Cap |-> TestGrow]
    /\ BuilderString(heap, b) = <<>>

\* Reset of the zero Builder
C12_WitnessEmpty ==
    /\ call.op = "Reset"
    /\ call.from = [Len |-> 0, Cap |-> 0]
    /\ BuilderLen(heap, b) = 0

\* C13: in every reachable state Cap() >= Len() >= 0
C13_CapLen ==
    /\ Cap(heap, b) >= BuilderLen(heap, b)
    /\ BuilderLen(heap, b) >= 0

\* the buffer is full: Cap() = Len() > 0
C13_Witness ==
    /\ call.op = "Write"
    /\ Cap(heap, b) = 4
    /\ BuilderLen(heap, b) = 4

\* the append that had to allocate: more room than content
C13_WitnessRoom ==
    /\ call.op = "Write.Write"
    /\ BuilderLen(heap, b) = 9
    /\ Cap(heap, b) = 16

\* the last call was Grow(n) with n >= 0
Grown == call.op = "Grow" /\ call.args[1] >= 0

\* a step that is a call of Grow(n) with n >= 0
GrowStep == call'.op = "Grow" /\ call'.args[1] >= 0

\* C14: after Grow(n) with n >= 0, Cap() - Len() >= n; Grow changes
\* neither Len() nor the content; the Writes that follow do not change
\* Cap() while they total at most n bytes; Grow(64) on the zero Builder
\* gives Len() = 0 and Cap() = 64
C14_Grow ==
    /\ [](Grown => Cap(heap, b) - BuilderLen(heap, b) >= call.args[1])
    /\ [](reserve.left >= 0 =>
            /\ Cap(heap, b) = reserve.cap
            /\ Cap(heap, b) - BuilderLen(heap, b) >= reserve.left)
    /\ [][GrowStep =>
            /\ BuilderLen(heap, b)' = BuilderLen(heap, b)
            /\ BuilderString(heap, b)' = BuilderString(heap, b)]_vars
    /\ [][(GrowStep /\ b = ZeroBuilder /\ call'.args[1] = TestGrow) =>
            /\ BuilderLen(heap, b)' = 0
            /\ Cap(heap, b)' = TestGrow]_vars

\* TestBuilder: Grow(64) on the zero Builder, then nine bytes in three
\* Writes, and Cap() is still 64
C14_Witness ==
    /\ call.op = "Write.Write"
    /\ written = <<foo, foo, foo>>
    /\ reserve = [cap |-> TestGrow, left |-> TestGrow - 9]
    /\ BuilderLen(heap, b) = 9
    /\ Cap(heap, b) = TestGrow

\* Grow had to allocate for a Builder that held content: 2*8 + 4 bytes
C14_WitnessContent ==
    /\ Grown
    /\ call.args[1] = 4
    /\ BuilderString(heap, b) = foo \o foo
    /\ Cap(heap, b) = 20

\* Grow(n) of a Builder that has the room: nothing changes
C14_WitnessRoom ==
    /\ Grown
    /\ call.args[1] = 4
    /\ BuilderString(heap, b) = foo
    /\ Cap(heap, b) = 8

\* the Writes used up the room of the last Grow and the buffer moved
C14_WitnessUsedUp ==
    /\ call.op = "Write"
    /\ reserve = NoReserve
    /\ BuilderString(heap, b) = foo \o foo
    /\ Cap(heap, b) = 8

\* the last call was Grow(n) with n < 0
GrownNegative == call.op = "Grow" /\ call.args[1] < 0

\* C15: Grow(n) with n < 0 panics, whatever the state of the Builder, and
\* leaves the content, Len() and Cap() as they were
C15_GrowNegative ==
    /\ [](GrownNegative => ret.panic = stringsBuilderGrowPanic)
    /\ [][(call'.op = "Grow" /\ call'.args[1] < 0) =>
            /\ BuilderString(heap, b)' = BuilderString(heap, b)
            /\ BuilderLen(heap, b)' = BuilderLen(heap, b)
            /\ Cap(heap, b)' = Cap(heap, b)]_vars

\* the panic of a Builder that holds content in a grown buffer
C15_Witness ==
    /\ GrownNegative
    /\ ret.panic # nil
    /\ BuilderString(heap, b) = foo \o <<"a">>
    /\ Cap(heap, b) = TestGrow

\* the panic of the zero Builder
C15_WitnessZero ==
    /\ GrownNegative
    /\ ret.panic # nil
    /\ BuilderLen(heap, b) = 0
    /\ Cap(heap, b) = 0

\* C19: Len() is the length of String(), and HotcoalString().String() is
\* String()
C19_LenString ==
    /\ BuilderLen(heap, b) = Len(BuilderString(heap, b))
    /\ String(HotcoalString(heap, b)) = BuilderString(heap, b)
    /\ call.op \in {"String", "HotcoalString"} => str = BuilderString(heap, b)

\* HotcoalString().String() of a buffer with more room than content
C19_Witness ==
    /\ call.op = "HotcoalString"
    /\ str = foo \o <<"a">>
    /\ BuilderLen(heap, b) = 4
    /\ Cap(heap, b) = 8

\* String() of the zero Builder
C19_WitnessZero ==
    /\ call.op = "String"
    /\ str = <<>>
    /\ b = ZeroBuilder

\* ------------------------------------------------------------------------
\* SpecValues: a program with two hotcoalString variables, x and y, and a
\* Builder.  A string is [arr, len], the bytes at the start of an array of
\* the heap, and was is the content it had when it was assigned.  The
\* program passes x and y to Join, Replace, ReplaceAll, + and Write,
\* assigns to y what they return and to x or y what HotcoalString() or
\* String() returns, and calls Grow and Reset.
\* ------------------------------------------------------------------------
MaxValue == 2

Names == {"x", "y"}

\* what strings.Join and strings.Replace return when they build a string:
\* var b Builder; b.Grow(n); b.WriteString(...); return b.String().  Of
\* the array only the bytes of the string can be reached, so that the
\* allocation of Grow makes no difference.
stringsBuild(h, content) ==
    LET g == stringsBuilderGrow(h, ZeroStringsBuilder, Len(content), "make")
        w == stringsBuilderWriteString(g.heap, g.sb, content)
    IN [heap |-> w.heap, str |-> unsafeString(w.sb.buf)]

\* strings.Join over strings in memory
memJoin(h, elems, sep) ==
    IF Len(elems) = 0 THEN [heap |-> h, str |-> unsafeString(nilSlice)]
    ELSE IF Len(elems) = 1 THEN [heap |-> h, str |-> elems[1]]
    ELSE stringsBuild(h, stringsJoin([i \in 1..Len(elems) |-> bytes(h, elems[i])],
                                     bytes(h, sep)))

\* strings.Replace over strings in memory
memReplace(h, s, old, new, n) ==
    IF bytes(h, old) = bytes(h, new) \/ n = 0 THEN [heap |-> h, str |-> s]
    ELSE IF stringsCount(bytes(h, s), bytes(h, old)) = 0 THEN [heap |-> h, str |-> s]
    ELSE stringsBuild(h, stringsReplace(bytes(h, s), bytes(h, old), bytes(h, new), n))

\* x + y: runtime.concatstrings
concatstrings(h, s1, s2) ==
    IF s1.len = 0 /\ s2.len = 0 THEN [heap |-> h, str |-> unsafeString(nilSlice)]
    ELSE IF s2.len = 0 THEN [heap |-> h, str |-> s1]
    ELSE IF s1.len = 0 THEN [heap |-> h, str |-> s2]
    ELSE LET p == mallocgc(h)
         IN [heap |-> [h EXCEPT ![p] = bytes(h, s1) \o bytes(h, s2)],
             str |-> [arr |-> p, len |-> s1.len + s2.len]]

\* the string of a variable
Str(v) == [arr |-> v.arr, len |-> v.len]

InitValues ==
    /\ allowlist = Allowlist(hotcoalString(<<"a">>), <<>>)
    /\ call = NoCall
    /\ ret = NoRet
    /\ str = NoStr
    /\ held = ZeroValue
    /\ b = ZeroBuilder
    /\ heap = [EmptyHeap EXCEPT !["p"] = <<"a">>, !["q"] = <<"b">>]
    /\ pc = "-"
    /\ view = [x |-> [arr |-> "p", len |-> 1, was |-> <<"a">>],
               y |-> [arr |-> "q", len |-> 1, was |-> <<"b">>]]
    /\ written = <<>>
    /\ reserve = NoReserve
    /\ threads = <<>>
    /\ mu = Free

\* Addresses mean nothing to a program but equality, so the state names
\* the arrays in the order of the pointers to them: the Builder's, x's, y's
Address == <<"p", "q", "r", "s">>

Pointers(bld, v) == <<bld.stringBuilder.buf.arr, v.x.arr, v.y.arr>>

Named(ptrs, a) ==
    IF a = "nil" THEN "nil"
    ELSE LET i == CHOOSE i \in 1..Len(ptrs) :
                      ptrs[i] = a /\ \A j \in 1..(i - 1) : ptrs[j] # a
         IN Address[Cardinality({ptrs[j] : j \in 1..(i - 1)} \ {"nil"}) + 1]

\* after the call: the Builder is bld, the variable named target holds
\* string s, which must be content, and the arrays nothing points to are
\* freed
Values(h, bld, target, s, content) ==
    LET v == [view EXCEPT ![target] = [arr |-> s.arr, len |-> s.len, was |-> content]]
        kept == Collect(h, BuilderSlices(bld), {Str(v.x), Str(v.y)})
        ptrs == Pointers(bld, v)
    IN /\ Len(content) <= MaxValue
       /\ Cap(h, bld) <= MaxCap
       /\ b' = [bld EXCEPT !.stringBuilder.buf.arr = Named(ptrs, @)]
       /\ view' = [x |-> [v.x EXCEPT !.arr = Named(ptrs, @)],
                   y |-> [v.y EXCEPT !.arr = Named(ptrs, @)]]
       /\ heap' = [p \in Arrays |->
                      IF \E i \in 1..Len(ptrs) : Named(ptrs, ptrs[i]) = p
                      THEN kept[CHOOSE a \in Arrays : a \in {ptrs[i] : i \in 1..Len(ptrs)}
                                                       /\ Named(ptrs, a) = p]
                      ELSE <<>>]
       /\ UNCHANGED <<allowlist, call, ret, str, held, pc, written, reserve, threads, mu>>

\* y = Join(Slice{elems...}, sep)
ValuesJoin ==
    \E elems \in StrUpTo(Names, 2), sep \in Names :
        LET r == memJoin(heap, [i \in 1..Len(elems) |-> Str(view[elems[i]])],
                         Str(view[sep]))
        IN Values(r.heap, b, "y", r.str,
                  String(Join([i \in 1..Len(elems) |-> hotcoalString(view[elems[i]].was)],
                              hotcoalString(view[sep].was))))

\* y = Replace(s, old, new, n)
ValuesReplace ==
    \E s \in Names, old \in Names, new \in Names, n \in {0, 1} :
        LET r == memReplace(heap, Str(view[s]), Str(view[old]), Str(view[new]), n)
        IN Values(r.heap, b, "y", r.str,
                  String(Replace(hotcoalString(view[s].was), hotcoalString(view[old].was),
                                 hotcoalString(view[new].was), n)))

\* y = ReplaceAll(s, old, new)
ValuesReplaceAll ==
    \E s \in Names, old \in Names, new \in Names :
        LET r == memReplace(heap, Str(view[s]), Str(view[old]), Str(view[new]), -1)
        IN Values(r.heap, b, "y", r.str,
                  String(ReplaceAll(hotcoalString(view[s].was),
                                    hotcoalString(view[old].was),
                                    hotcoalString(view[new].was))))

\* y = s1 + s2
ValuesConcat ==
    \E s1 \in Names, s2 \in Names :
        LET r == concatstrings(heap, Str(view[s1]), Str(view[s2]))
        IN Values(r.heap, b, "y", r.str,
                  String(Concat(hotcoalString(view[s1].was), hotcoalString(view[s2].was))))

\* target = b.HotcoalString(), or hotcoal.Wrap(b.String())
ValuesTake ==
    \E target \in Names :
        Values(heap, b, target, unsafeString(b.stringBuilder.buf), BuilderString(heap, b))

\* b.Write(s)
ValuesWrite ==
    \E s \in Names :
        LET r == Write(heap, b, hotcoalString(bytes(heap, Str(view[s]))))
        IN /\ BuilderLen(r.heap, r.b) <= MaxValue + 1
           /\ Values(r.heap, r.b, "x", Str(view.x), view.x.was)

\* b.Grow(n)
ValuesGrow ==
    \E n \in {4}, alloc \in Allocations :
        LET r == Grow(heap, b, n, alloc)
        IN Values(r.heap, r.b, "x", Str(view.x), view.x.was)

\* b.Reset()
ValuesReset ==
    LET r == Reset(heap, b)
    IN Values(r.heap, r.b, "x", Str(view.x), view.x.was)

NextValues ==
    \/ ValuesJoin
    \/ ValuesReplace
    \/ ValuesReplaceAll
    \/ ValuesConcat
    \/ ValuesTake
    \/ ValuesWrite
    \/ ValuesGrow
    \/ ValuesReset

SpecValues == InitValues /\ [][NextValues]_vars

\* the bytes of variable v, as they are now
Now(v) == bytes(heap, Str(v))

\* the variable shares the array of the Builder
OfBuilder(v) == v.arr # "nil" /\ v.arr = b.stringBuilder.buf.arr

\* C18: a hotcoalString keeps the content it was assigned: no call of
\* Join, Replace, ReplaceAll or + changes an argument or an element of the
\* slice, what they return is the value the function defines, and what
\* HotcoalString() or String() returned stays the same through every later
\* Write, Grow and Reset of the Builder
C18_Immutable ==
    /\ Now(view.x) = view.x.was
    /\ Now(view.y) = view.y.was

\* y was taken from the Builder, which then wrote more into the same array
C18_Witness ==
    /\ OfBuilder(view.y)
    /\ view.y.was = <<"b">>
    /\ BuilderString(heap, b) = <<"b", "a", "b">>

\* x was taken from the Builder, which was reset and written to again
C18_WitnessReset ==
    /\ view.x.was = <<"a", "b">>
    /\ ~OfBuilder(view.x)
    /\ view.x.arr # "nil"
    /\ BuilderString(heap, b) = <<"b">>
    /\ view.y.was = <<"a", "b">>
    /\ view.y.arr = view.x.arr

\* y was built from x: x is what it was
C18_WitnessJoin ==
    /\ view.x.was = <<"a">>
    /\ view.y.was = <<"a", "a">>
    /\ view.y.arr \notin {"nil", view.x.arr}

\* ------------------------------------------------------------------------
\* SpecConcurrent: goroutines that share one allowlist call Validate, V,
\* MustValidate and MV at the same time.  A call is the steps of Validate:
\* the map access, then fmt.Errorf over the map on a miss, then the return;
\* the steps of the callers interleave in any order.  call is the
\* Allowlist(...) call that made the allowlist.
\* ------------------------------------------------------------------------
NumCallers == 2

Callers == 1..NumCallers

CallerValues == {<<"a">>, <<"b">>}

\* a caller that has not called yet
Idle == [pc |-> "idle", op |-> "none", value |-> <<>>, ret |-> NoRet]

\* a broken map access that stores the key it looked for
mapaccess2Stores(m, k) == [ok |-> k \in DOMAIN m, m |-> MapSet(m, k, unit)]

\* _, ok := m[k] (runtime.mapaccess2): ok, and the map after the access
mapaccess2(m, k) == [ok |-> k \in DOMAIN m, m |-> m]

InitConcurrent ==
    /\ \E first \in {hotcoalString(<<"a">>)},
          others \in StrUpTo({hotcoalString(<<>>), hotcoalString(<<"b">>)}, 1) :
          /\ allowlist = Allowlist(first, others)
          /\ call = [op |-> "Allowlist", args |-> <<first, others>>]
    /\ ret = NoRet
    /\ str = NoStr
    /\ held = ZeroValue
    /\ b = ZeroBuilder
    /\ heap = EmptyHeap
    /\ pc = "-"
    /\ view = NoView
    /\ written = <<>>
    /\ reserve = NoReserve
    /\ threads = [t \in Callers |-> Idle]
    /\ mu = Free

\* caller t is at statement at and goes on as next
Step(t, at, next) ==
    /\ threads[t].pc \in at
    /\ threads' = [threads EXCEPT ![t] = next]
    /\ UNCHANGED <<call, ret, str, held, b, heap, pc, view, written, reserve, mu>>

\* a.Validate(value), a.V(value), a.MustValidate(value) or a.MV(value)
CallerCalls(t) ==
    \E op \in ValidateOps \cup MustValidateOps, value \in CallerValues :
        /\ Step(t, {"idle", "done"},
                [pc |-> "access", op |-> op, value |-> value, ret |-> NoRet])
        /\ UNCHANGED allowlist

\* if _, ok := a.items[hotcoalString(value)]; ok { return hotcoalString(value), nil }
CallerAccess(t) ==
    LET r == mapaccess2(allowlist.items, hotcoalString(threads[t].value))
    IN /\ Step(t, {"access"},
               [threads[t] EXCEPT
                   !.pc = IF r.ok THEN "return" ELSE "errorf",
                   !.ret = IF r.ok THEN Returned(hotcoalString(threads[t].value))
                           ELSE NoRet])
       /\ allowlist' = [allowlist EXCEPT !.items = r.m]

\* return "", fmt.Errorf("...", value, a.items)
CallerErrorf(t) ==
    /\ Step(t, {"errorf"},
            [threads[t] EXCEPT
                !.pc = "return",
                !.ret = [val |-> hotcoalString(<<>>),
                         err |-> ValidationError(threads[t].value, allowlist.items),
                         panic |-> nil]])
    /\ UNCHANGED allowlist

\* Validate and V return what they have; MustValidate and MV panic on an
\* error, and the caller recovers as TestAllowlist does
CallerReturns(t) ==
    LET r == threads[t].ret
    IN /\ Step(t, {"return"},
               [threads[t] EXCEPT
                   !.pc = "done",
                   !.ret = IF threads[t].op \in MustValidateOps
                           THEN IF r.err # nil THEN Panicked(r.err) ELSE Returned(r.val)
                           ELSE r])
       /\ UNCHANGED allowlist

NextConcurrent ==
    \E t \in Callers :
        \/ CallerCalls(t)
        \/ CallerAccess(t)
        \/ CallerErrorf(t)
        \/ CallerReturns(t)

SpecConcurrent == InitConcurrent /\ [][NextConcurrent]_vars

\* the items the allowlist was made of
ConstructionItems == {call.args[1]} \cup {call.args[2][i] : i \in 1..Len(call.args[2])}

\* what the call of caller t returns when nobody else is calling
Alone(t) ==
    LET a == Allowlist(call.args[1], call.args[2])
        r == Validate(a, threads[t].value)
    IN IF threads[t].op \in MustValidateOps
       THEN MustValidate(a, threads[t].value)
       ELSE [val |-> r.val, err |-> r.err, panic |-> nil]

\* C16: whatever the interleaving of Validate, V, MustValidate and MV
\* calls of concurrent callers, the items of the allowlist stay the items
\* it was made of, and every call returns what it returns when it runs
\* alone
C16_ConcurrentValidate ==
    /\ DOMAIN allowlist.items = ConstructionItems
    /\ \A t \in Callers : threads[t].pc = "done" => threads[t].ret = Alone(t)

\* a failed Validate finished while a MustValidate of the same allowlist
\* was between its map access and its return
C16_Witness ==
    /\ threads[1].pc = "done"
    /\ threads[1].op = "Validate"
    /\ threads[1].ret.err # nil
    /\ threads[2].pc = "return"
    /\ threads[2].op = "MustValidate"
    /\ threads[2].ret.val = hotcoalString(<<"a">>)

\* two calls finished after their steps interleaved: a panic and a hit
C16_WitnessBoth ==
    /\ threads[1].pc = "done"
    /\ threads[1].op = "MV"
    /\ threads[1].ret.panic # nil
    /\ threads[2].pc = "done"
    /\ threads[2].op = "V"
    /\ threads[2].ret = Returned(hotcoalString(<<"a">>))

\* ------------------------------------------------------------------------
\* SpecRace: goroutines that share one Builder each call Write or Reset
\* once.  No method of the Builder locks, so that a call is the steps of
\* strings.Builder.WriteString (load b.buf, append, store b.buf) or of
\* Reset (store nil), and the steps of the callers interleave.  In one
\* program the callers share nothing else (mu = NoMutex); in the other
\* they hold a mutex around each call.  Loads and stores of the slice are
\* taken as whole: a racing build can also tear them, which adds outcomes
\* to the program without the mutex and none to the one with it.
\* ------------------------------------------------------------------------
NumWriters == 2

Writers == 1..NumWriters

\* the callers have no mutex
NoMutex == -1

\* caller t writes its own letter
Letter == <<"a", "b", "c", "d">>
FragmentOf(t) == <<Letter[t]>>

\* the room the Builder was given before the callers start
RaceGrowArgs == {0, 4}

InitRace ==
    /\ allowlist = Allowlist(hotcoalString(<<"a">>), <<>>)
    /\ call = NoCall
    /\ ret = NoRet
    /\ str = NoStr
    /\ held = ZeroValue
    /\ \E n \in RaceGrowArgs :
          LET r == Grow(EmptyHeap, ZeroBuilder, n, "make")
          IN b = r.b /\ heap = r.heap
    /\ pc = "-"
    /\ view = NoView
    /\ written = <<>>
    /\ reserve = NoReserve
    /\ \E ops \in [Writers -> {"Write", "Reset"}] :
          threads = [t \in Writers |->
                        [pc |-> "start", op |-> ops[t], buf |-> nilSlice]]
    /\ mu \in {Free, NoMutex}

\* the slices the Builder and the callers point to
RaceSlices(bld, thr) == BuilderSlices(bld) \cup {thr[t].buf : t \in Writers}

\* caller t goes on as next; the Builder and the heap are bld and h
RaceStep(t, at, next, bld, h) ==
    /\ threads[t].pc = at
    /\ threads' = [threads EXCEPT ![t] = next]
    /\ b' = bld
    /\ heap' = Collect(h, RaceSlices(bld, threads'), {})
    /\ UNCHANGED <<allowlist, call, ret, str, held, pc, view, written, reserve>>

\* mu.Lock(), where the callers lock
RaceLock(t) ==
    /\ mu \in {Free, NoMutex}
    /\ mu' = IF mu = NoMutex THEN NoMutex ELSE t
    /\ RaceStep(t, "start",
                [threads[t] EXCEPT !.pc = IF threads[t].op = "Write" THEN "load" ELSE "reset"],
                b, heap)

\* WriteString: b.copyCheck(), and the b.buf that append is called with
RaceLoad(t) ==
    /\ RaceStep(t, "load",
                [threads[t] EXCEPT !.pc = "append", !.buf = b.stringBuilder.buf],
                [stringBuilder |-> copyCheck(b.stringBuilder)], heap)
    /\ UNCHANGED mu

\* WriteString: append(b.buf, s...)
RaceAppend(t) ==
    LET r == append(heap, threads[t].buf, FragmentOf(t))
    IN /\ RaceStep(t, "append", [threads[t] EXCEPT !.pc = "store", !.buf = r.buf],
                   b, r.heap)
       /\ UNCHANGED mu

\* WriteString: b.buf = the slice append returned
RaceStore(t) ==
    /\ RaceStep(t, "store", [threads[t] EXCEPT !.pc = "unlock", !.buf = nilSlice],
                [b EXCEPT !.stringBuilder.buf = threads[t].buf], heap)
    /\ UNCHANGED mu

\* Reset: b.addr = nil; b.buf = nil
RaceReset(t) ==
    /\ RaceStep(t, "reset", [threads[t] EXCEPT !.pc = "unlock"],
                Reset(heap, b).b, heap)
    /\ UNCHANGED mu

\* mu.Unlock(), where the callers lock
RaceUnlock(t) ==
    /\ mu \in {t, NoMutex}
    /\ mu' = IF mu = NoMutex THEN NoMutex ELSE Free
    /\ RaceStep(t, "unlock", [threads[t] EXCEPT !.pc = "done"], b, heap)

NextRace ==
    \E t \in Writers :
        \/ RaceLock(t)
        \/ RaceLoad(t)
        \/ RaceAppend(t)
        \/ RaceStore(t)
        \/ RaceReset(t)
        \/ RaceUnlock(t)

SpecRace == InitRace /\ [][NextRace]_vars

\* the content after the calls of the callers in ts, made one after the
\* other in any order on a Builder that holds content
RECURSIVE Sequential(_, _)
Sequential(ts, content) ==
    IF ts = {} THEN {content}
    ELSE UNION {Sequential(ts \ {t},
                           IF threads[t].op = "Write" THEN content \o FragmentOf(t)
                           ELSE <<>>) : t \in ts}

\* the callers whose call is over
Finished == {t \in Writers : threads[t].pc \in {"unlock", "done"}}

\* nobody is inside a call
Quiet == \A t \in Writers : threads[t].pc \in {"start", "done"}

\* C17: when every caller holds the mutex around its call, then between
\* the calls the content is what the finished calls leave in one of their
\* sequential orders; without the mutex concurrent Writes and Resets
\* reach content that no sequential order leaves (the witness)
C17_ExclusiveOwner ==
    (mu # NoMutex /\ Quiet) => BuilderString(heap, b) \in Sequential(Finished, <<>>)

\* without the mutex: both Writes are over and one fragment is lost
C17_Witness ==
    /\ mu = NoMutex
    /\ \A t \in Writers : threads[t].pc = "done" /\ threads[t].op = "Write"
    /\ BuilderString(heap, b) \notin Sequential(Writers, <<>>)

\* with the mutex: both Writes are over
C17_WitnessLocked ==
    /\ mu = Free
    /\ \A t \in Writers : threads[t].pc = "done" /\ threads[t].op = "Write"
    /\ BuilderString(heap, b) = <<"b", "a">>

\* without the mutex: a Write stored its slice after the Reset
C17_WitnessReset ==
    /\ mu = NoMutex
    /\ \A t \in Writers : threads[t].pc = "done"
    /\ threads[1].op = "Reset"
    /\ threads[2].op = "Write"
    /\ Cap(heap, b) = 4

\* ------------------------------------------------------------------------
\* SpecItoa: one call of Itoa(i), for the integers around zero and for the
\* least and the greatest int
\* ------------------------------------------------------------------------
MaxItoa == 120

ItoaArgs == (-MaxItoa..MaxItoa) \cup {MinInt, MinInt + 1, MaxInt - 1, MaxInt}

InitItoa ==
    /\ allowlist = Allowlist(hotcoalString(<<"a">>), <<>>)
    /\ \E i \in ItoaArgs : call = [op |-> "Itoa", args |-> <<i>>]
    /\ ret = NoRet
    /\ str = NoStr
    /\ held = ZeroValue
    /\ b = ZeroBuilder
    /\ heap = EmptyHeap
    /\ pc = "-"
    /\ AuxIdle

CallItoa ==
    /\ ret = NoRet
    /\ ret' = Returned(Itoa(call.args[1]))
    /\ str' = String(Itoa(call.args[1]))
    /\ UNCHANGED <<allowlist, call, held, b, heap, pc, aux>>

NextItoa == CallItoa

SpecItoa == InitItoa /\ [][NextItoa]_vars

\* the value of a decimal digit
DigitValue(c) == (CHOOSE k \in 1..10 : Digit[k] = c) - 1

\* the integer a string of decimal digits denotes
RECURSIVE Decimal(_)
Decimal(ds) ==
    IF ds = <<>> THEN 0
    ELSE 10 * Decimal(SubSeq(ds, 1, Len(ds) - 1)) + DigitValue(ds[Len(ds)])

IsDigit(c) == \E k \in 1..10 : Digit[k] = c

\* the text without its sign
Unsigned(s) == IF s # <<>> /\ s[1] = "-" THEN Tail(s) ELSE s

\* C20: Itoa(i) is the canonical decimal text of i: decimal digits only,
\* after a "-" exactly when i < 0, no leading zero but in "0", and the
\* integer the text denotes is i
C20_ItoaCanonical ==
    ret.val # NoValue =>
        LET i == call.args[1]
            digits == Unsigned(str)
        IN /\ str = String(ret.val)
           /\ (str[1] = "-") <=> (i < 0)
           /\ digits # <<>>
           /\ \A k \in 1..Len(digits) : IsDigit(digits[k])
           /\ Len(digits) > 1 => digits[1] # "0"
           /\ (IF i < 0 THEN -Decimal(digits) ELSE Decimal(digits)) = i

\* a negative integer of three digits
C20_Witness ==
    /\ call.args = <<-105>>
    /\ str = <<"-", "1", "0", "5">>

\* zero
C20_WitnessZero ==
    /\ call.args = <<0>>
    /\ str = <<"0">>

\* the least int, whose negation is no int
C20_WitnessMinInt ==
    /\ call.args = <<MinInt>>
    /\ ret.val # NoValue
    /\ Len(str) = 6
    /\ str[1] = "-"

====
